---- MODULE Spec2Model ----
(***************************************************************************)
(* SerializeDataTransform: the mutation write-back stage of the fuse       *)
(* storage engine.  The processor pulls a data block from its input port,  *)
(* serializes it (process), writes the block and its bloom index to the    *)
(* object store (async_process) and pushes a MutationTransformMeta block   *)
(* to its output port.  The ports, the upstream, the downstream and the    *)
(* scheduler are the environment of the processor.                         *)
(***************************************************************************)
EXTENDS Integers, Sequences, FiniteSets, TLC

\* ---------------------------------------------------------------- bounds
MaxUnits == 2      \* number of units the upstream delivers

\* The values the upstream puts into its units.  The stage only copies and
\* compares them, so two of each are enough to tell them apart.
BlockIndexes == {1, 2}     \* SerializeDataMeta.index
PriorStats == {0, 1}       \* SerializeDataMeta.cluster_stats, 0 is None
RowCounts == {0, 2}        \* DataBlock::num_rows

\* Option<T> is a sequence of length at most one.
None == <<>>
Some(x) == <<x>>

\* Option<ClusterStatistics>::None
NoStats == 0

\* BlockIndex of a freshly built stage (before any metadata was seen)
InitIndex == 0

VARIABLES
  state,          \* SerializeDataTransform.state
  output_data,    \* SerializeDataTransform.output_data : Option<DataBlock>
  index,          \* SerializeDataTransform.index
  origin_stats,   \* SerializeDataTransform.origin_stats
  nextBlockId,    \* location_gen: number of block ids generated so far
  storage,        \* dal: the set of locations durably written
  inSlot,         \* input port: the buffered unit
  inNeed,         \* input port: need-data flag
  inFinished,     \* input port: the upstream finished
  outSlot,        \* output port: the buffered unit
  outNeed,        \* output port: need-data flag set by the downstream
  outFinished,    \* output port: finished (by the downstream or the stage)
  lastCall,       \* scheduler: the last method called on the processor
  lastEvent,      \* scheduler: the Event returned by the last event()
  lastResult,     \* scheduler: "ok" or "err", result of the last call
  pulled,         \* history: the units pulled from the input port, in order
  pushed,         \* history: the blocks pushed to the output port, in order
  writeLog,       \* history: the storage writes attempted, in order
  failed,         \* history: uids of the units during which a call failed
  wrongState,     \* history: a phase took its "It's a bug." branch
  wrongCalls,     \* history: <<phase, state>> of the last such call
  stageFinished   \* history: the stage called output.finish()

stageVars == <<state, output_data, index, origin_stats, nextBlockId, storage>>
inVars    == <<inSlot, inNeed, inFinished>>
outVars   == <<outSlot, outNeed, outFinished>>
schedVars == <<lastCall, lastEvent, lastResult>>
histVars  == <<pulled, pushed, writeLog, failed, wrongState, wrongCalls,
               stageFinished>>
vars == <<stageVars, inVars, outVars, schedVars, histVars>>

\* ------------------------------------------------------------ input units
\* A unit is Result<DataBlock>: err = TRUE is an Err pushed by the upstream.
\* metaKind "none": no meta; "serialize": a SerializeDataMeta{index,
\* cluster_stats}; "other": a BlockMetaInfo of another concrete type.
MetaUnits ==
  [err : {FALSE}, metaKind : {"serialize"}, index : BlockIndexes,
   stats : PriorStats, rows : RowCounts]

NoMetaUnits ==
  [err : {FALSE}, metaKind : {"none"}, index : {InitIndex},
   stats : {NoStats}, rows : RowCounts]

OtherMetaUnits ==
  [err : {FALSE}, metaKind : {"other"}, index : {InitIndex},
   stats : {NoStats}, rows : {2}]

ErrUnits ==
  [err : {TRUE}, metaKind : {"none"}, index : {InitIndex},
   stats : {NoStats}, rows : {0}]

Units == MetaUnits \cup NoMetaUnits \cup OtherMetaUnits \cup ErrUnits

\* ------------------------------------------------------------------ State
\* uid is the position of the in-flight unit in `pulled` (history only).
Consume == [tag |-> "Consume"]
NeedSerialize(block, uid) == [tag |-> "NeedSerialize", block |-> block, uid |-> uid]
Serialized(ss, meta, uid) == [tag |-> "Serialized", ss |-> ss, meta |-> meta, uid |-> uid]
Output(op, uid) == [tag |-> "Output", op |-> op, uid |-> uid]

\* Mutation
DoNothing == [kind |-> "DoNothing", meta |-> None]
Deleted == [kind |-> "Deleted", meta |-> None]
Replaced(block_meta) == [kind |-> "Replaced", meta |-> Some(block_meta)]

\* ------------------------------------------------------------------ ports
has_data == inSlot # None
input_is_finished == inFinished /\ inSlot = None
can_push == outNeed /\ outSlot = None
output_is_finished == outFinished

\* ---------------------------------------------------------- collaborators
is_empty(block) == block.rows = 0
num_rows(block) == block.rows

\* ClusterStatsGenerator::gen_with_origin_stats(block, origin_stats)
gen_with_origin_stats(block, origin) == [origin |-> origin, rows |-> num_rows(block)]

\* TableMetaLocationGenerator
gen_block_location(id) == <<"block", id>>
block_bloom_index_location(id) == <<"bloom", id>>

\* MutationTransformMeta::create(index, op) wrapped by empty_with_meta
MutationTransformMeta_create(idx, op, uid) == [index |-> idx, op |-> op, uid |-> uid]

\* ------------------------------------------------------------------- Init
Init ==
  /\ state = Consume
  /\ output_data = None
  /\ index = InitIndex
  /\ origin_stats = NoStats
  /\ nextBlockId = 0
  /\ storage = {}
  /\ inSlot = None
  /\ inNeed = FALSE
  /\ inFinished = FALSE
  /\ outSlot = None
  /\ outNeed = FALSE
  /\ outFinished = FALSE
  /\ lastCall = "none"
  /\ lastEvent = "none"
  /\ lastResult = "ok"
  /\ pulled = <<>>
  /\ pushed = <<>>
  /\ writeLog = <<>>
  /\ failed = {}
  /\ wrongState = FALSE
  /\ wrongCalls = <<>>
  /\ stageFinished = FALSE

\* ------------------------------------------------------------ environment
UpstreamPush ==
  /\ inNeed /\ inSlot = None /\ ~inFinished
  /\ Len(pulled) < MaxUnits
  /\ \E u \in Units : inSlot' = Some(u)
  /\ UNCHANGED <<stageVars, inNeed, inFinished, outVars, schedVars, histVars>>

UpstreamFinish ==
  /\ ~inFinished
  /\ inFinished' = TRUE
  /\ UNCHANGED <<stageVars, inSlot, inNeed, outVars, schedVars, histVars>>

DownstreamNeed ==
  /\ ~outNeed /\ outSlot = None /\ ~outFinished
  /\ outNeed' = TRUE
  /\ UNCHANGED <<stageVars, inVars, outSlot, outFinished, schedVars, histVars>>

\* InputPort::set_not_need_data on the downstream side: a downstream that
\* is itself blocked withdraws its request, and can_push() becomes false.
DownstreamNotNeed ==
  /\ outNeed /\ ~outFinished
  /\ outNeed' = FALSE
  /\ UNCHANGED <<stageVars, inVars, outSlot, outFinished, schedVars, histVars>>

DownstreamPull ==
  /\ outSlot # None
  /\ outSlot' = None
  /\ outNeed' = FALSE
  /\ UNCHANGED <<stageVars, inVars, outFinished, schedVars, histVars>>

DownstreamFinish ==
  /\ ~outFinished
  /\ outFinished' = TRUE
  /\ UNCHANGED <<stageVars, inVars, outSlot, outNeed, schedVars, histVars>>

\* ------------------------------------------------------------------ event
\* EventBranch that pulls new input before pushing the pending output
EventBranch_PullFirst ==
  IF state.tag \in {"NeedSerialize", "Output"} THEN "sync"
  ELSE IF state.tag = "Serialized" THEN "async"
  ELSE IF output_is_finished THEN "output_finished"
  ELSE IF ~can_push THEN "need_consume"
  ELSE IF has_data THEN "pull"
  ELSE IF output_data # None THEN "push"
  ELSE IF input_is_finished THEN "input_finished"
  ELSE "need_data"

\* EventBranch without the can_push test
EventBranch_NoCanPush ==
  IF state.tag \in {"NeedSerialize", "Output"} THEN "sync"
  ELSE IF state.tag = "Serialized" THEN "async"
  ELSE IF output_is_finished THEN "output_finished"
  ELSE IF output_data # None THEN "push"
  ELSE IF input_is_finished THEN "input_finished"
  ELSE IF ~has_data THEN "need_data"
  ELSE "pull"

\* EventBranch that asks for process() in state Serialized as well
EventBranch_SerializedSync ==
  IF state.tag \in {"NeedSerialize", "Output", "Serialized"} THEN "sync"
  ELSE IF output_is_finished THEN "output_finished"
  ELSE IF ~can_push THEN "need_consume"
  ELSE IF output_data # None THEN "push"
  ELSE IF input_is_finished THEN "input_finished"
  ELSE IF ~has_data THEN "need_data"
  ELSE "pull"

\* EventBranch that tests the end of the input before the pending output
EventBranch_FinishFirst ==
  IF state.tag \in {"NeedSerialize", "Output"} THEN "sync"
  ELSE IF state.tag = "Serialized" THEN "async"
  ELSE IF output_is_finished THEN "output_finished"
  ELSE IF ~can_push THEN "need_consume"
  ELSE IF input_is_finished THEN "input_finished"
  ELSE IF output_data # None THEN "push"
  ELSE IF ~has_data THEN "need_data"
  ELSE "pull"

\* EventBranch without the is_finished test of the output port
EventBranch_NoFinishedTest ==
  IF state.tag \in {"NeedSerialize", "Output"} THEN "sync"
  ELSE IF state.tag = "Serialized" THEN "async"
  ELSE IF ~can_push THEN "need_consume"
  ELSE IF output_data # None THEN "push"
  ELSE IF input_is_finished THEN "input_finished"
  ELSE IF ~has_data THEN "need_data"
  ELSE "pull"

\* EventBranch without the test for a pending output
EventBranch_NoPendingTest ==
  IF state.tag \in {"NeedSerialize", "Output"} THEN "sync"
  ELSE IF state.tag = "Serialized" THEN "async"
  ELSE IF output_is_finished THEN "output_finished"
  ELSE IF ~can_push THEN "need_consume"
  ELSE IF input_is_finished THEN "input_finished"
  ELSE IF ~has_data THEN "need_data"
  ELSE "pull"

\* The branch event() takes, in the order of its early returns.
EventBranch ==
  IF state.tag \in {"NeedSerialize", "Output"} THEN "sync"
  ELSE IF state.tag = "Serialized" THEN "async"
  ELSE IF output_is_finished THEN "output_finished"
  ELSE IF ~can_push THEN "need_consume"
  ELSE IF output_data # None THEN "push"
  ELSE IF input_is_finished THEN "input_finished"
  ELSE IF ~has_data THEN "need_data"
  ELSE "pull"

\* output.finish() forgotten: the port stays as it is
output_finish_Skipped == outFinished

\* self.output.finish(): the finished flag of the output port afterwards
output_finish == TRUE

\* std::mem::replace that leaves the state in place
TakeState_Keep == state

\* std::mem::replace(&mut self.state, State::Consume): the state left in
\* the stage while process() or async_process() works on the old one
TakeState == Consume

\* the wildcard arm that returns Ok(())
InternalError_Silent == "ok"

\* Err(ErrorCode::Internal("It's a bug.")), the wildcard arm of both phases
InternalError == "err"

\* output_data.take() that leaves the block in place
TakeOutput_Clone == [data |-> output_data[1], rest |-> output_data]

\* self.output_data.take(): the block taken and what is left behind
TakeOutput == [data |-> output_data[1], rest |-> None]

\* SerializeDataMeta::from_meta: downcast of the block's meta
from_meta_ok(data) == data.metaKind = "serialize"

\* PullTransition that does not record the index of the metadata
PullTransition_StaleIndex(data, uid) ==
  IF data.err THEN
    [res |-> "err", state |-> state, index |-> index, origin_stats |-> origin_stats]
  ELSE IF data.metaKind = "none" THEN
    [res |-> "ok", state |-> Output(DoNothing, uid),
     index |-> index, origin_stats |-> origin_stats]
  ELSE IF ~from_meta_ok(data) THEN
    [res |-> "err", state |-> state, index |-> index, origin_stats |-> origin_stats]
  ELSE
    [res |-> "ok",
     state |-> IF is_empty(data) THEN Output(Deleted, uid)
               ELSE NeedSerialize(data, uid),
     index |-> index, origin_stats |-> data.stats]

\* PullTransition that does not test whether the block is empty
PullTransition_NoEmptyTest(data, uid) ==
  IF data.err THEN
    [res |-> "err", state |-> state, index |-> index, origin_stats |-> origin_stats]
  ELSE IF data.metaKind = "none" THEN
    [res |-> "ok", state |-> Output(DoNothing, uid),
     index |-> index, origin_stats |-> origin_stats]
  ELSE IF ~from_meta_ok(data) THEN
    [res |-> "err", state |-> state, index |-> index, origin_stats |-> origin_stats]
  ELSE
    [res |-> "ok", state |-> NeedSerialize(data, uid),
     index |-> data.index, origin_stats |-> data.stats]

\* PullTransition that serializes every non-empty block, with or without meta
PullTransition_NoMetaTest(data, uid) ==
  IF data.err THEN
    [res |-> "err", state |-> state, index |-> index, origin_stats |-> origin_stats]
  ELSE IF data.metaKind = "none" THEN
    [res |-> "ok",
     state |-> IF is_empty(data) THEN Output(DoNothing, uid)
               ELSE NeedSerialize(data, uid),
     index |-> index, origin_stats |-> origin_stats]
  ELSE IF ~from_meta_ok(data) THEN
    [res |-> "err", state |-> state, index |-> index, origin_stats |-> origin_stats]
  ELSE
    [res |-> "ok",
     state |-> IF is_empty(data) THEN Output(Deleted, uid)
               ELSE NeedSerialize(data, uid),
     index |-> data.index, origin_stats |-> data.stats]

\* PullTransition that records the statistics only when the metadata has some
PullTransition_KeepStats(data, uid) ==
  IF data.err THEN
    [res |-> "err", state |-> state, index |-> index, origin_stats |-> origin_stats]
  ELSE IF data.metaKind = "none" THEN
    [res |-> "ok", state |-> Output(DoNothing, uid),
     index |-> index, origin_stats |-> origin_stats]
  ELSE IF ~from_meta_ok(data) THEN
    [res |-> "err", state |-> state, index |-> index, origin_stats |-> origin_stats]
  ELSE
    [res |-> "ok",
     state |-> IF is_empty(data) THEN Output(Deleted, uid)
               ELSE NeedSerialize(data, uid),
     index |-> data.index,
     origin_stats |-> IF data.stats = NoStats THEN origin_stats ELSE data.stats]

\* PullTransition that takes the index of every unit, metadata or not
PullTransition_OwnIndex(data, uid) ==
  IF data.err THEN
    [res |-> "err", state |-> state, index |-> index, origin_stats |-> origin_stats]
  ELSE IF data.metaKind = "none" THEN
    [res |-> "ok", state |-> Output(DoNothing, uid),
     index |-> data.index, origin_stats |-> origin_stats]
  ELSE IF ~from_meta_ok(data) THEN
    [res |-> "err", state |-> state, index |-> index, origin_stats |-> origin_stats]
  ELSE
    [res |-> "ok",
     state |-> IF is_empty(data) THEN Output(Deleted, uid)
               ELSE NeedSerialize(data, uid),
     index |-> data.index, origin_stats |-> data.stats]

\* The tail of event(): what pulling `data` does to the stage.
PullTransition(data, uid) ==
  IF data.err THEN
    [res |-> "err", state |-> state, index |-> index, origin_stats |-> origin_stats]
  ELSE IF data.metaKind = "none" THEN
    [res |-> "ok", state |-> Output(DoNothing, uid),
     index |-> index, origin_stats |-> origin_stats]
  ELSE IF ~from_meta_ok(data) THEN
    [res |-> "err", state |-> state, index |-> index, origin_stats |-> origin_stats]
  ELSE
    [res |-> "ok",
     state |-> IF is_empty(data) THEN Output(Deleted, uid)
               ELSE NeedSerialize(data, uid),
     index |-> data.index, origin_stats |-> data.stats]

event ==
  /\ lastCall' = "event"
  /\ LET b == EventBranch IN
     IF b = "sync" THEN
       /\ lastEvent' = "Sync" /\ lastResult' = "ok"
       /\ UNCHANGED <<stageVars, inVars, outVars, histVars>>
     ELSE IF b = "async" THEN
       /\ lastEvent' = "Async" /\ lastResult' = "ok"
       /\ UNCHANGED <<stageVars, inVars, outVars, histVars>>
     ELSE IF b = "output_finished" THEN
       /\ lastEvent' = "Finished" /\ lastResult' = "ok"
       /\ UNCHANGED <<stageVars, inVars, outVars, histVars>>
     ELSE IF b = "need_consume" THEN
       /\ lastEvent' = "NeedConsume" /\ lastResult' = "ok"
       /\ UNCHANGED <<stageVars, inVars, outVars, histVars>>
     ELSE IF b = "push" THEN
       /\ outSlot' = Some(TakeOutput.data)
       /\ pushed' = Append(pushed, TakeOutput.data)
       /\ output_data' = TakeOutput.rest
       /\ lastEvent' = "NeedConsume" /\ lastResult' = "ok"
       /\ UNCHANGED <<state, index, origin_stats, nextBlockId, storage, inVars,
                      outNeed, outFinished, pulled, writeLog, failed,
                      wrongState, wrongCalls, stageFinished>>
     ELSE IF b = "input_finished" THEN
       /\ outFinished' = output_finish
       /\ stageFinished' = TRUE
       /\ lastEvent' = "Finished" /\ lastResult' = "ok"
       /\ UNCHANGED <<stageVars, inVars, outSlot, outNeed, pulled, pushed,
                      writeLog, failed, wrongState, wrongCalls>>
     ELSE IF b = "need_data" THEN
       /\ inNeed' = TRUE
       /\ lastEvent' = "NeedData" /\ lastResult' = "ok"
       /\ UNCHANGED <<stageVars, inSlot, inFinished, outVars, histVars>>
     ELSE
       LET data == inSlot[1]
           uid == Len(pulled) + 1
           t == PullTransition(data, uid)
       IN /\ inSlot' = None
          /\ inNeed' = FALSE
          /\ pulled' = Append(pulled, data)
          /\ state' = t.state
          /\ index' = t.index
          /\ origin_stats' = t.origin_stats
          /\ lastResult' = t.res
          /\ lastEvent' = IF t.res = "ok" THEN "Sync" ELSE "none"
          /\ failed' = IF t.res = "ok" THEN failed ELSE failed \cup {uid}
          /\ UNCHANGED <<output_data, nextBlockId, storage, inFinished, outVars,
                         pushed, writeLog, wrongState, wrongCalls,
                         stageFinished>>

\* ---------------------------------------------------------------- process
\* The fallible steps of the NeedSerialize arm, in program order.
SerializeSteps == <<"cluster_stats", "bloom_index", "column_stats", "parquet", "column_metas">>
SerializeFaults == {"none"} \cup {SerializeSteps[i] : i \in 1..Len(SerializeSteps)}

\* gen_block_location runs after the cluster statistics and before the rest.
LocationGenerated(fault) == fault # "cluster_stats"

\* The Serialized state built from a block when every step succeeds.
SerializeBlock(block, origin, id, uid) ==
  Serialized(
    [block_data |-> <<"parquet", num_rows(block)>>,
     block_location |-> gen_block_location(id),
     index_data |-> <<"bloom", num_rows(block)>>,
     index_location |-> block_bloom_index_location(id)],
    [row_count |-> num_rows(block),
     cluster_stats |-> gen_with_origin_stats(block, origin),
     location |-> gen_block_location(id),
     bloom_filter_index_location |-> block_bloom_index_location(id)],
    uid)

\* The Output arm: the block buffered as pending output.
ProcessOutput(op, uid) == Some(MutationTransformMeta_create(index, op, uid))

\* AfterSerialize that keeps the payload when the serializer fails
AfterSerialize_KeepPartial(fault, block, origin, id, uid) ==
  IF fault \in {"none", "parquet", "column_metas"}
  THEN SerializeBlock(block, origin, id, uid)
  ELSE TakeState

\* The state the NeedSerialize arm leaves: Serialized when every step
\* succeeded, else what mem::replace left (each `?` returns early).
AfterSerialize(fault, block, origin, id, uid) ==
  IF fault = "none" THEN SerializeBlock(block, origin, id, uid) ELSE TakeState

process ==
  /\ lastCall' = "process"
  /\ IF state.tag = "NeedSerialize" THEN
       \E fault \in SerializeFaults :
         /\ origin_stats' = NoStats
         /\ nextBlockId' = IF LocationGenerated(fault) THEN nextBlockId + 1
                           ELSE nextBlockId
         /\ state' = AfterSerialize(fault, state.block, origin_stats,
                                    nextBlockId + 1, state.uid)
         /\ lastResult' = IF fault = "none" THEN "ok" ELSE "err"
         /\ failed' = IF fault = "none" THEN failed ELSE failed \cup {state.uid}
         /\ UNCHANGED <<output_data, index, storage, wrongState, wrongCalls>>
     ELSE IF state.tag = "Output" THEN
       /\ output_data' = ProcessOutput(state.op, state.uid)
       /\ state' = TakeState
       /\ lastResult' = "ok"
       /\ UNCHANGED <<index, origin_stats, nextBlockId, storage, failed,
                      wrongState, wrongCalls>>
     ELSE
       /\ state' = TakeState
       /\ lastResult' = InternalError
       /\ wrongState' = TRUE
       /\ wrongCalls' = <<"process", state.tag>>
       /\ failed' = IF state.tag = "Serialized" THEN failed \cup {state.uid} ELSE failed
       /\ UNCHANGED <<output_data, index, origin_stats, nextBlockId, storage>>
  /\ UNCHANGED <<lastEvent, inVars, outVars, pulled, pushed, writeLog, stageFinished>>

\* ---------------------------------------------------------- async_process
WriteFaults == {"none", "block", "index"}

\* AsyncWrites that attempts the index write whatever the block write did
AsyncWrites_NoShortCircuit(ss, uid, fault) ==
  <<[uid |-> uid, kind |-> "block", loc |-> ss.block_location,
     data |-> ss.block_data, ok |-> fault # "block"],
    [uid |-> uid, kind |-> "index", loc |-> ss.index_location,
     data |-> ss.index_data, ok |-> fault # "index"]>>

\* AsyncWrites that forgets the index write
AsyncWrites_SkipIndex(ss, uid, fault) ==
  <<[uid |-> uid, kind |-> "block", loc |-> ss.block_location,
     data |-> ss.block_data, ok |-> fault # "block"]>>

\* The write_data calls async_process makes, in order, with their results.
AsyncWrites(ss, uid, fault) ==
  LET wb == [uid |-> uid, kind |-> "block", loc |-> ss.block_location,
             data |-> ss.block_data, ok |-> fault # "block"]
      wi == [uid |-> uid, kind |-> "index", loc |-> ss.index_location,
             data |-> ss.index_data, ok |-> fault # "index"]
  IN IF ~wb.ok THEN <<wb>> ELSE <<wb, wi>>

AllOk(ws) == \A i \in 1..Len(ws) : ws[i].ok

\* AfterWrites that ignores the result of the writes
AfterWrites_IgnoreErrors(ws, block_meta, uid) == Output(Replaced(block_meta), uid)

\* The state async_process leaves after its writes.
AfterWrites(ws, block_meta, uid) ==
  IF AllOk(ws) THEN Output(Replaced(block_meta), uid) ELSE TakeState

\* Durable that removes the block again when the index write fails
Durable_Rollback(ws) ==
  IF AllOk(ws) THEN {ws[i].loc : i \in 1..Len(ws)} ELSE {}

\* The locations the writes of one async_process call leave in the store.
Durable(ws) == {ws[i].loc : i \in {j \in 1..Len(ws) : ws[j].ok}}

async_process ==
  /\ lastCall' = "async_process"
  /\ IF state.tag = "Serialized" THEN
       \E fault \in WriteFaults :
         LET ws == AsyncWrites(state.ss, state.uid, fault) IN
         /\ writeLog' = writeLog \o ws
         /\ storage' = storage \cup Durable(ws)
         /\ state' = AfterWrites(ws, state.meta, state.uid)
         /\ lastResult' = IF AllOk(ws) THEN "ok" ELSE "err"
         /\ failed' = IF AllOk(ws) THEN failed ELSE failed \cup {state.uid}
         /\ UNCHANGED <<wrongState, wrongCalls>>
     ELSE
       /\ state' = TakeState
       /\ lastResult' = InternalError
       /\ wrongState' = TRUE
       /\ wrongCalls' = <<"async_process", state.tag>>
       /\ failed' = IF state.tag = "NeedSerialize" \/ state.tag = "Output"
                    THEN failed \cup {state.uid} ELSE failed
       /\ UNCHANGED <<writeLog, storage>>
  /\ UNCHANGED <<output_data, index, origin_stats, nextBlockId, lastEvent,
                 inVars, outVars, pulled, pushed, stageFinished>>

\* -------------------------------------------------------------- scheduler
\* The call the scheduling contract allows next: process() after Sync,
\* async_process() after Async, event() otherwise.
NextCall ==
  IF lastCall = "event" /\ lastResult = "ok" /\ lastEvent = "Sync" THEN "process"
  ELSE IF lastCall = "event" /\ lastResult = "ok" /\ lastEvent = "Async"
    THEN "async_process"
  ELSE "event"

SchedEvent == NextCall = "event" /\ event
SchedProcess == NextCall = "process" /\ process
SchedAsync == NextCall = "async_process" /\ async_process

Next ==
  \/ UpstreamPush
  \/ UpstreamFinish
  \/ DownstreamNeed
  \/ DownstreamNotNeed
  \/ DownstreamPull
  \/ DownstreamFinish
  \/ SchedEvent
  \/ SchedProcess
  \/ SchedAsync

Spec == Init /\ [][Next]_vars

\* A scheduler that does not keep the dispatch contract: it calls any of
\* the three methods at any time.
AnyEvent == event
AnyProcess == process
AnyAsync == async_process

LooseNext ==
  \/ UpstreamPush
  \/ UpstreamFinish
  \/ DownstreamNeed
  \/ DownstreamNotNeed
  \/ DownstreamPull
  \/ DownstreamFinish
  \/ AnyEvent
  \/ AnyProcess
  \/ AnyAsync

LooseSpec == Init /\ [][LooseNext]_vars

TypeOK ==
  /\ state.tag \in {"Consume", "NeedSerialize", "Serialized", "Output"}
  /\ Len(output_data) <= 1
  /\ index \in BlockIndexes \cup {InitIndex}
  /\ Len(pulled) <= MaxUnits

\* Fairness the scheduler and the downstream provide: the scheduler keeps
\* dispatching the phase event() asked for, the downstream keeps asking for
\* and pulling data, and the executor polls the stage each time the
\* downstream asks for data (so a stage that is ready to act infinitely
\* often is polled while ready).
Fairness ==
  /\ SF_vars(SchedEvent)
  /\ WF_vars(SchedProcess)
  /\ WF_vars(SchedAsync)
  /\ WF_vars(DownstreamNeed)
  /\ WF_vars(DownstreamPull)

FairSpec == Spec /\ Fairness

\* ------------------------------------------------------ history operators
\* positions in `pushed` of the outcomes of the i-th pulled unit
PushedFor(i) == {k \in 1..Len(pushed) : pushed[k].uid = i}

\* the i-th pulled unit is between its pull and the push of its outcome
InFlight(i) == Len(pulled) = i /\ PushedFor(i) = {}

\* the stage is past the i-th unit: it pulled a later one, or it finished
\* the output port after exhausting its input
Past(i) == Len(pulled) > i \/ stageFinished

WritesFor(i) == {k \in 1..Len(writeLog) : writeLog[k].uid = i}

IsReplaceUnit(u) == ~u.err /\ u.metaKind = "serialize" /\ u.rows >= 1
IsDeleteUnit(u) == ~u.err /\ u.metaKind = "serialize" /\ u.rows = 0
IsNoMetaUnit(u) == ~u.err /\ u.metaKind = "none"

\* ------------------------------------------------------------------ C1
C1_Safe ==
  \A i \in 1..Len(pulled) :
    IsReplaceUnit(pulled[i]) =>
      /\ Cardinality(PushedFor(i)) <= 1
      /\ \A k \in PushedFor(i) :
           /\ pushed[k].op.kind = "Replaced"
           /\ pushed[k].index = pulled[i].index
      /\ (i \notin failed /\ Past(i)) => Cardinality(PushedFor(i)) = 1

\* the unit pulled last (the only one that can be in flight)
LastUnit == Len(pulled)

C1_Live ==
  (LastUnit > 0 /\ IsReplaceUnit(pulled[LastUnit]) /\ InFlight(LastUnit))
    ~> (LastUnit > 0 /\
        (PushedFor(LastUnit) # {} \/ LastUnit \in failed \/ outFinished))

\* C1: a pulled unit with control metadata and at least one row gets, when
\* no phase fails for it and the downstream keeps pulling without finishing
\* the port, exactly one outcome pushed; the outcome is Replaced and carries
\* the block index of the unit's metadata.
C1_ReplacedOnce == []C1_Safe /\ C1_Live

C1_Witness ==
  \E k \in 1..Len(pushed) :
    /\ pushed[k].op.kind = "Replaced"
    /\ IsReplaceUnit(pulled[pushed[k].uid])
    /\ pushed[k].index = pulled[pushed[k].uid].index

\* ------------------------------------------------------------------ C2
\* C2: a pulled unit with control metadata and zero rows gets exactly one
\* outcome pushed, Deleted with the block index of its metadata; while it is
\* in flight the stage is never NeedSerialize or Serialized, and no storage
\* write is made for it.
C2_DeletedOnce ==
  \A i \in 1..Len(pulled) :
    IsDeleteUnit(pulled[i]) =>
      /\ Cardinality(PushedFor(i)) <= 1
      /\ \A k \in PushedFor(i) :
           /\ pushed[k].op = Deleted
           /\ pushed[k].index = pulled[i].index
      /\ Past(i) => Cardinality(PushedFor(i)) = 1
      /\ InFlight(i) => state.tag \notin {"NeedSerialize", "Serialized"}
      /\ WritesFor(i) = {}
      /\ i \notin failed

C2_Witness ==
  \E k \in 1..Len(pushed) :
    /\ pushed[k].op.kind = "Deleted"
    /\ IsDeleteUnit(pulled[pushed[k].uid])

\* ------------------------------------------------------------------ C3
\* C3: a pulled unit without control metadata, whatever its row count, gets
\* exactly one outcome pushed, DoNothing; while it is in flight the stage is
\* never NeedSerialize or Serialized, and no storage write is made for it.
C3_UnchangedOnce ==
  \A i \in 1..Len(pulled) :
    IsNoMetaUnit(pulled[i]) =>
      /\ Cardinality(PushedFor(i)) <= 1
      /\ \A k \in PushedFor(i) : pushed[k].op = DoNothing
      /\ Past(i) => Cardinality(PushedFor(i)) = 1
      /\ InFlight(i) => state.tag \notin {"NeedSerialize", "Serialized"}
      /\ WritesFor(i) = {}
      /\ i \notin failed

C3_Witness ==
  \E k \in 1..Len(pushed) :
    /\ pushed[k].op.kind = "DoNothing"
    /\ IsNoMetaUnit(pulled[pushed[k].uid])
    /\ pulled[pushed[k].uid].rows > 0

\* ------------------------------------------------------------------ C4
\* the kind of outcome the i-th pulled unit must get
ExpectedKind(u) ==
  IF IsNoMetaUnit(u) THEN "DoNothing"
  ELSE IF IsDeleteUnit(u) THEN "Deleted"
  ELSE "Replaced"

\* C4: while no phase has failed, the k-th pushed outcome is the outcome of
\* the k-th pulled unit, the stage is at most one outcome behind its pulls,
\* and when it finishes the output after exhausting the input it has pushed
\* as many outcomes as it pulled units.
C4_Ordered ==
  failed = {} =>
    /\ Len(pushed) <= Len(pulled)
    /\ Len(pushed) >= Len(pulled) - 1
    /\ \A k \in 1..Len(pushed) :
         /\ pushed[k].uid = k
         /\ pushed[k].op.kind = ExpectedKind(pulled[k])
         /\ pulled[k].metaKind = "serialize" => pushed[k].index = pulled[k].index
         /\ pushed[k].op.kind = "Replaced" =>
              pushed[k].op.meta[1].row_count = pulled[k].rows
    /\ stageFinished => Len(pushed) = Len(pulled)

C4_Witness ==
  /\ failed = {}
  /\ stageFinished
  /\ Len(pushed) = MaxUnits
  /\ \E j, k \in 1..Len(pushed) : pushed[j].op.kind # pushed[k].op.kind

\* ------------------------------------------------------------------ C5
\* what an event() call that is held back by the port must do
C5_HeldBack ==
  /\ lastEvent' = "NeedConsume"
  /\ output_data' = output_data
  /\ pulled' = pulled
  /\ pushed' = pushed
  /\ outSlot' = outSlot

\* an event() call made in state Consume while the port cannot push
C5_Blocked ==
  (SchedEvent /\ ~can_push /\ ~output_is_finished /\ state.tag = "Consume")
    => C5_HeldBack

\* an event() call made with a pending outcome once the port can push
C5_Delivered ==
  (SchedEvent /\ output_data # None /\ can_push /\ ~output_is_finished) =>
    /\ pushed' = Append(pushed, output_data[1])
    /\ outSlot' = output_data
    /\ output_data' = None
    /\ pulled' = pulled

\* a pending outcome leaves output_data only by being pushed
C5_Kept ==
  (output_data # None /\ output_data' # output_data) =>
    /\ output_data' = None
    /\ pushed' = Append(pushed, output_data[1])

\* C5 (amended): an outcome is pending only in state Consume; while the
\* output port cannot push (and is not finished) every event() made in state
\* Consume returns NeedConsume, pulls nothing and leaves the pending outcome
\* as it is; once the port can push, the next event() pushes that outcome,
\* once.
C5_Backpressure ==
  /\ [](output_data # None => state.tag = "Consume")
  /\ [][C5_Blocked /\ C5_Delivered /\ C5_Kept]_vars

\* C5 (as claimed): while the output port cannot push (and is not finished),
\* every event() returns NeedConsume and leaves the pending outcome as it is.
C5_Original ==
  [][(SchedEvent /\ ~can_push /\ ~output_is_finished) => C5_HeldBack]_vars

C5_Witness ==
  /\ output_data # None
  /\ ~can_push /\ ~output_is_finished
  /\ lastCall = "event" /\ lastEvent = "NeedConsume"
  /\ Len(pushed) < Len(pulled)

\* ------------------------------------------------------------------ C6
\* an outcome of the i-th pulled unit is held by the stage or was pushed
OutcomeFor(i) ==
  \/ state.tag = "Output" /\ state.uid = i
  \/ output_data # None /\ output_data[1].uid = i
  \/ outSlot # None /\ outSlot[1].uid = i
  \/ PushedFor(i) # {}

\* C6: when the block write or the index write fails, async_process()
\* returns the error, the state does not become Output(Replaced) for that
\* unit, and no outcome for the unit is ever buffered or pushed.
C6_WriteFailure ==
  /\ \A k \in 1..Len(writeLog) :
       ~writeLog[k].ok =>
         /\ ~OutcomeFor(writeLog[k].uid)
         /\ writeLog[k].uid \in failed
         /\ writeLog[k].loc \notin storage
  /\ (lastCall = "async_process" /\ writeLog # <<>>
        /\ ~writeLog[Len(writeLog)].ok) =>
       (lastResult = "err" /\ state.tag # "Output")

C6_Witness ==
  /\ \E j, k \in 1..Len(writeLog) :
       /\ ~writeLog[j].ok /\ writeLog[j].kind = "block"
       /\ ~writeLog[k].ok /\ writeLog[k].kind = "index"
  /\ lastCall = "event"

\* ------------------------------------------------------------------ C7
\* C7 (as claimed): when the output port is finished, the next event()
\* returns Finished in every state of the stage, and from then on no
\* serialization and no storage write is started.
C7_Cancellation ==
  [][/\ (SchedEvent /\ output_is_finished) => lastEvent' = "Finished"
     /\ (output_is_finished /\ lastCall = "event" /\ lastEvent = "Finished") =>
          (writeLog' = writeLog /\ state'.tag # "Serialized")]_vars

\* ------------------------------------------------------------------ C8
\* the Replaced outcomes the stage holds or has pushed
HeldReplaced ==
  {state.op.meta[1] : x \in {y \in {1} :
      state.tag = "Output" /\ state.op.kind = "Replaced"}}
  \cup {output_data[k].op.meta[1] : k \in {j \in 1..Len(output_data) :
      output_data[j].op.kind = "Replaced"}}
  \cup {outSlot[k].op.meta[1] : k \in {j \in 1..Len(outSlot) :
      outSlot[j].op.kind = "Replaced"}}
  \cup {pushed[k].op.meta[1] : k \in {j \in 1..Len(pushed) :
      pushed[j].op.kind = "Replaced"}}

\* C8: every Replaced(d) the stage holds or has pushed has the block bytes
\* and the index bytes of d durably written; an index write is attempted
\* only right after the block write of the same unit succeeded.
C8_WrittenBeforeReplaced ==
  /\ \A d \in HeldReplaced :
       /\ d.location \in storage
       /\ d.bloom_filter_index_location \in storage
       /\ \E j, k \in 1..Len(writeLog) :
            /\ j < k
            /\ writeLog[j].ok /\ writeLog[j].loc = d.location
            /\ writeLog[k].ok /\ writeLog[k].loc = d.bloom_filter_index_location
  /\ \A k \in 1..Len(writeLog) :
       writeLog[k].kind = "index" =>
         /\ k > 1
         /\ writeLog[k-1].kind = "block"
         /\ writeLog[k-1].ok
         /\ writeLog[k-1].uid = writeLog[k].uid

C8_Witness ==
  /\ state.tag = "Output" /\ state.op.kind = "Replaced"
  /\ \E k \in 1..Len(writeLog) : ~writeLog[k].ok

\* ------------------------------------------------------------------ C9
\* C9: after a successful event() the event is Sync exactly when the state
\* is NeedSerialize or Output and Async exactly when it is Serialized, and
\* otherwise the state is Consume; a successful process() leaves Serialized
\* or Consume, a successful async_process() leaves Output; with the phases
\* called as event() directs, no phase takes its internal-error branch.
C9_Total ==
  /\ (lastCall = "event" /\ lastResult = "ok") =>
       /\ lastEvent \in {"Finished", "NeedData", "NeedConsume", "Sync", "Async"}
       /\ lastEvent = "Sync" <=> state.tag \in {"NeedSerialize", "Output"}
       /\ lastEvent = "Async" <=> state.tag = "Serialized"
  /\ (lastCall = "process" /\ lastResult = "ok") =>
       state.tag \in {"Serialized", "Consume"}
  /\ (lastCall = "async_process" /\ lastResult = "ok") => state.tag = "Output"
  /\ lastResult = "err" => state.tag = "Consume"
  /\ ~wrongState

C9_Witness ==
  /\ lastCall = "event" /\ lastEvent = "Async" /\ state.tag = "Serialized"
  /\ Len(pushed) > 0

\* ------------------------------------------------------------------ C10
C10_Counts ==
  /\ \A i \in 1..Len(pulled) :
       ~IsReplaceUnit(pulled[i]) => WritesFor(i) = {}
  /\ \A k \in 1..Len(pushed) :
       IF pushed[k].op.kind = "Replaced"
       THEN /\ Cardinality(WritesFor(pushed[k].uid)) = 2
            /\ \E b, x \in WritesFor(pushed[k].uid) :
                 /\ writeLog[b].kind = "block" /\ writeLog[b].ok
                 /\ writeLog[x].kind = "index" /\ writeLog[x].ok
       ELSE WritesFor(pushed[k].uid) = {}

C10_OnlyAsync ==
  (writeLog' # writeLog \/ storage' # storage) =>
    /\ SchedAsync
    /\ state.tag = "Serialized"
    /\ lastCall' = "async_process"

\* C10: storage is written only by async_process() entered from Serialized;
\* a unit that ends as Deleted or Unchanged causes no write, a unit that
\* ends as Replaced causes exactly two, one block write and one index write.
C10_WritesOnlyAsync == []C10_Counts /\ [][C10_OnlyAsync]_vars

C10_Witness ==
  /\ \E j, k \in 1..Len(pushed) :
       /\ pushed[j].op.kind = "Replaced"
       /\ pushed[k].op.kind \in {"Deleted", "DoNothing"}
  /\ Len(writeLog) = 2

\* ------------------------------------------------------------------ C11
\* the stage has returned Finished from its own end-of-input branch
C11_Safe ==
  stageFinished =>
    /\ outFinished
    /\ inFinished /\ inSlot = None
    /\ state.tag = "Consume"
    /\ output_data = None
    /\ lastCall = "event" /\ lastEvent = "Finished" /\ lastResult = "ok"
    /\ failed = {} => Len(pushed) = Len(pulled)

\* the step in which the stage finishes its output port
C11_FinishStep ==
  (stageFinished' /\ ~stageFinished) =>
    /\ SchedEvent
    /\ ~outFinished /\ outFinished'
    /\ lastEvent' = "Finished"
    /\ pushed' = pushed

\* once the upstream has finished the input port, the stage finishes its
\* output port and returns Finished, unless the downstream finished first
C11_Live ==
  inFinished ~> ((stageFinished /\ lastEvent = "Finished")
                   \/ (outFinished /\ ~stageFinished))

\* C11: when the upstream finishes after N units, every phase succeeds and
\* the downstream keeps pulling and does not finish early, event() finishes
\* the output port and returns Finished; then N outcomes have been pushed,
\* the state is Consume and no output is pending.
C11_Termination == []C11_Safe /\ [][C11_FinishStep]_vars /\ C11_Live

C11_Witness ==
  /\ stageFinished /\ lastEvent = "Finished"
  /\ failed = {}
  /\ Len(pulled) = MaxUnits /\ Len(pushed) = MaxUnits
  /\ state.tag = "Consume" /\ output_data = None
  /\ outSlot = None

\* ------------------------------------------------------------------ C12
\* what a call from a state the phase does not support must look like
C12_FailFast ==
  /\ lastResult' = "err"
  /\ output_data' = output_data
  /\ outSlot' = outSlot
  /\ pushed' = pushed
  /\ writeLog' = writeLog
  /\ storage' = storage

\* C12: process() called in state Consume or Serialized, and async_process()
\* called in state Consume, NeedSerialize or Output, return an error; no
\* outcome is buffered or pushed and nothing is written.
C12_ContractViolation ==
  [][/\ (AnyProcess /\ state.tag \in {"Consume", "Serialized"}) => C12_FailFast
     /\ (AnyAsync /\ state.tag \in {"Consume", "NeedSerialize", "Output"})
          => C12_FailFast]_vars

C12_Witness ==
  /\ wrongCalls = <<"async_process", "Output">>
  /\ lastCall = "async_process" /\ lastResult = "err"
  /\ pushed # <<>>

\* ------------------------------------------------------------------ C13
\* a unit with metadata and zero rows is between its pull and its push
DeleteInFlight ==
  /\ LastUnit > 0
  /\ IsDeleteUnit(pulled[LastUnit])
  /\ InFlight(LastUnit)

\* C13 (amended): for a unit with metadata and zero rows, async_process()
\* is never invoked and event() never returns Async; event() returns Sync
\* once, when it pulls the unit, and process() is invoked once, from state
\* Output(Deleted), only to buffer the outcome (never to serialize).
C13_DeletedPhases ==
  [][/\ DeleteInFlight =>
          /\ ~SchedAsync
          /\ SchedEvent => lastEvent' \notin {"Sync", "Async"}
          /\ SchedProcess =>
               /\ state = Output(Deleted, LastUnit)
               /\ state'.tag = "Consume"
               /\ output_data = None /\ output_data' # None
               /\ output_data'[1].op = Deleted
     /\ (DeleteInFlight' /\ ~DeleteInFlight) =>
          (SchedEvent /\ lastEvent' = "Sync")]_vars

\* C13 (as claimed): between the pull of such a unit and the push of its
\* outcome, event() never returns Sync or Async and no phase is invoked.
C13_Original ==
  [][/\ (DeleteInFlight' /\ SchedEvent) => lastEvent' \notin {"Sync", "Async"}
     /\ DeleteInFlight => (~SchedProcess /\ ~SchedAsync)]_vars

C13_Witness ==
  /\ DeleteInFlight
  /\ lastCall = "process" /\ lastResult = "ok"
  /\ output_data # None /\ output_data[1].op = Deleted
  /\ writeLog = <<>>

\* ------------------------------------------------------------------ C14
\* a step that pushes to the output port
C14_PushStep ==
  (pushed' # pushed \/ (outSlot' # outSlot /\ outSlot' # None)) =>
    /\ SchedEvent
    /\ ~output_is_finished
    /\ can_push
    /\ outSlot = None
    /\ output_data # None
    /\ pushed' = Append(pushed, output_data[1])
    /\ outSlot' = Some(output_data[1])

\* C14: push_data is called only by event(), only when the output port is
\* not finished and can push, once per call; the port never holds more than
\* one unit, and nothing is pushed once the port is finished: an outcome
\* pending then stays in the stage.
C14_PushDiscipline ==
  /\ [](Len(outSlot) <= 1)
  /\ [][C14_PushStep]_vars
  /\ [][(output_is_finished /\ output_data # None) =>
          (output_data' = output_data /\ pushed' = pushed
             /\ outSlot' = outSlot)]_vars

C14_Witness ==
  /\ outFinished /\ ~stageFinished
  /\ output_data # None
  /\ lastCall = "event" /\ lastEvent = "Finished"
  /\ PushedFor(output_data[1].uid) = {}

\* ------------------------------------------------------------------ C15
\* a step that pulls from the input port
C15_PullStep ==
  pulled' # pulled =>
    /\ SchedEvent
    /\ state.tag = "Consume"
    /\ output_data = None
    /\ can_push
    /\ Len(pulled') = Len(pulled) + 1

\* a process() call from Output fills an empty output_data
C15_NoOverwrite ==
  (SchedProcess /\ state.tag = "Output") =>
    (output_data = None /\ output_data' # None)

\* C15: event() pulls only in state Consume with no pending outcome and a
\* port that can push, one unit per call; whenever the state is not Consume
\* no outcome is pending, so process() from Output overwrites nothing.
C15_OneInFlight ==
  /\ [](state.tag # "Consume" => output_data = None)
  /\ [][C15_PullStep /\ C15_NoOverwrite]_vars

C15_Witness ==
  /\ Len(pulled) = 2
  /\ state.tag = "Output"
  /\ output_data = None
  /\ Len(pushed) = 1 /\ pushed[1].uid = 1

\* ------------------------------------------------------------------ C16
\* the index writes that failed after their block write succeeded
OrphanWrites ==
  {k \in 2..Len(writeLog) :
     /\ writeLog[k].kind = "index" /\ ~writeLog[k].ok
     /\ writeLog[k-1].kind = "block" /\ writeLog[k-1].ok}

\* C16: when the block write succeeds and the index write fails,
\* async_process() returns the error, the block stays in the store (no
\* delete, no other write for that unit) and no outcome refers to the block.
C16_Orphan ==
  /\ \A k \in OrphanWrites :
       /\ writeLog[k-1].loc \in storage
       /\ writeLog[k].loc \notin storage
       /\ WritesFor(writeLog[k].uid) = {k-1, k}
       /\ ~OutcomeFor(writeLog[k].uid)
       /\ \A d \in HeldReplaced : d.location # writeLog[k-1].loc
  /\ (lastCall = "async_process" /\ Len(writeLog) \in OrphanWrites) =>
       (lastResult = "err" /\ state.tag = "Consume")

C16_Witness ==
  /\ OrphanWrites # {}
  /\ Len(writeLog) \notin OrphanWrites
  /\ pushed # <<>>

\* ------------------------------------------------------------------ C17
\* a process() call in NeedSerialize that returns an error
C17_FailingStep ==
  (SchedProcess /\ state.tag = "NeedSerialize" /\ lastResult' = "err") =>
    /\ state' = Consume
    /\ output_data = None /\ output_data' = None
    /\ writeLog' = writeLog /\ storage' = storage
    /\ pushed' = pushed /\ outSlot' = outSlot
    /\ state.uid \in failed'
    /\ WritesFor(state.uid) = {}

\* C17: when a step of the serialize phase fails, process() returns the
\* error, the state is not Serialized and holds no descriptor or payload,
\* and no storage write and no outcome follow for the unit.
C17_SerializeFailure ==
  /\ [][C17_FailingStep]_vars
  /\ [](\A i \in failed : ~OutcomeFor(i))
  /\ [][\A i \in failed : WritesFor(i)' = WritesFor(i)]_vars
  /\ []((lastCall = "process" /\ lastResult = "err") =>
          (state.tag = "Consume" /\ WritesFor(LastUnit) = {}))

C17_Witness ==
  /\ Len(pulled) = 2
  /\ 1 \in failed /\ IsReplaceUnit(pulled[1]) /\ WritesFor(1) = {}
  /\ nextBlockId = 2
  /\ PushedFor(2) # {} /\ pushed[1].op.kind = "Replaced"

\* ------------------------------------------------------------------ C18
\* the prior cluster statistics a Replaced descriptor was generated with
C18_OriginOf(op) == op.meta[1].cluster_stats.origin

\* C18: the prior cluster statistics given to the statistics generator are
\* those of the block being serialized; statistics recorded for an earlier
\* unit are never used for a later one, and process() clears them.
C18_OwnStats ==
  /\ [](state.tag = "NeedSerialize" => origin_stats = pulled[state.uid].stats)
  /\ [](state.tag = "Serialized" =>
          /\ state.meta.cluster_stats.origin = pulled[state.uid].stats
          /\ origin_stats = NoStats)
  /\ [](\A k \in 1..Len(pushed) :
          pushed[k].op.kind = "Replaced" =>
            C18_OriginOf(pushed[k].op) = pulled[pushed[k].uid].stats)
  /\ [][(SchedProcess /\ state.tag = "NeedSerialize") =>
          origin_stats' = NoStats]_vars

C18_Witness ==
  /\ Len(pulled) = 2
  /\ IsDeleteUnit(pulled[1]) /\ pulled[1].stats = 1
  /\ IsReplaceUnit(pulled[2]) /\ pulled[2].stats = NoStats
  /\ Len(pushed) = 2
  /\ C18_OriginOf(pushed[2].op) = NoStats

\* ------------------------------------------------------------------ C19
\* the last call was an event() that returned Finished
ReturnedFinished ==
  lastCall = "event" /\ lastResult = "ok" /\ lastEvent = "Finished"

\* C19: once event() has returned Finished every later call is an event()
\* that returns Finished, and none pulls, pushes or changes the state.
C19_Absorbing ==
  [][ReturnedFinished =>
       /\ ReturnedFinished'
       /\ UNCHANGED <<stageVars, pulled, pushed, writeLog, failed>>
       /\ SchedEvent => UNCHANGED <<inSlot, outSlot>>]_vars

C19_Witness ==
  /\ ReturnedFinished
  /\ outFinished /\ ~stageFinished
  /\ inSlot # None /\ ~inFinished
  /\ Len(pulled) = 1 /\ Len(pushed) = 1

\* ------------------------------------------------------------------ C20
\* the last call was a process() or async_process() that returned an error
PhaseFailed ==
  lastCall \in {"process", "async_process"} /\ lastResult = "err"

\* C20: after a process() or async_process() that returns an error the
\* state is Consume and the unit in flight is dropped; process() in state
\* Serialized destroys the payload without writing; the next event() takes
\* the idle path and asks for a phase only by pulling a new unit.
C20_ErrorResets ==
  /\ [](PhaseFailed => state = Consume)
  /\ [](\A i \in failed : ~OutcomeFor(i))
  /\ [][(AnyProcess /\ state.tag = "Serialized") =>
          /\ state' = Consume /\ lastResult' = "err"
          /\ state.uid \in failed'
          /\ writeLog' = writeLog /\ storage' = storage
          /\ output_data' = output_data]_vars
  /\ [][(PhaseFailed /\ AnyEvent /\ lastResult' = "ok"
           /\ lastEvent' \in {"Sync", "Async"}) =>
          (pulled' = Append(pulled, inSlot[1]) /\ lastEvent' = "Sync")]_vars

C20_Witness ==
  /\ wrongCalls = <<"process", "Serialized">>
  /\ Len(pulled) = 2
  /\ 1 \in failed /\ WritesFor(1) = {}
  /\ state.tag = "NeedSerialize" /\ state.uid = 2
  /\ lastCall = "event" /\ lastEvent = "Sync"

\* ------------------------------------------------------------------ C21
\* the unit carries control metadata that from_meta accepts
HasValidMeta(u) == ~u.err /\ u.metaKind = "serialize"

\* the valid-metadata units among the first i pulled
MetaBefore(i) == {k \in 1..i : HasValidMeta(pulled[k])}

\* the index of the latest valid-metadata unit among the first i pulled,
\* the initial index when there is none
LastMetaIndex(i) ==
  IF MetaBefore(i) = {} THEN InitIndex
  ELSE pulled[CHOOSE k \in MetaBefore(i) : \A j \in MetaBefore(i) : j <= k].index

\* the DoNothing outcomes the stage has buffered or pushed
UnchangedOutcomes ==
  {pushed[k] : k \in {j \in 1..Len(pushed) : pushed[j].op.kind = "DoNothing"}}
  \cup {output_data[k] : k \in {j \in 1..Len(output_data) :
          output_data[j].op.kind = "DoNothing"}}

\* a step that changes the recorded index
C21_IndexStep ==
  index' # index =>
    /\ SchedEvent
    /\ Len(pulled') = Len(pulled) + 1
    /\ HasValidMeta(pulled'[Len(pulled')])
    /\ index' = pulled'[Len(pulled')].index

\* C21: the recorded block index changes only when a unit with valid
\* control metadata is pulled, so an Unchanged outcome carries the index of
\* the latest metadata-bearing unit pulled before it, or the initial index.
C21_IndexFrame ==
  /\ [][C21_IndexStep]_vars
  /\ [](index = LastMetaIndex(Len(pulled)))
  /\ [](\A o \in UnchangedOutcomes :
          /\ ~HasValidMeta(pulled[o.uid])
          /\ o.index = LastMetaIndex(o.uid - 1))

C21_Witness ==
  /\ Len(pulled) = 2 /\ Len(pushed) = 2
  /\ HasValidMeta(pulled[1]) /\ pulled[1].index = 2
  /\ IsNoMetaUnit(pulled[2])
  /\ pushed[2].op.kind = "DoNothing" /\ pushed[2].uid = 2
  /\ pushed[2].index = 2 /\ pushed[2].index # pulled[2].index

====
